---- MODULE Spec2Model ----
(***************************************************************************)
(* A model of the supplier-selection batch: the job pipeline of main.py    *)
(* (discovery of top-level folders, loading of a job's inputs, ranking,    *)
(* relocation of the job's folder to done/ or ko/) and the report compiler *)
(* of pdfGenerator.py (top-10 tables, radar chart, temporary chart image). *)
(*                                                                         *)
(* Strings that the code inspects (object keys, prefixes, CSV cells) are   *)
(* sequences of tokens: "/" is the S3 delimiter, " " is whitespace, every  *)
(* other token is a run of characters holding neither.                     *)
(***************************************************************************)
EXTENDS Integers, Sequences, FiniteSets, TLC

VARIABLES
    store,            \* the bucket: object key -> object content
    store0,           \* history: the bucket when the run started
    folders,          \* main.py:54  the list list_folders returned
    idx,              \* main.py:56  position of the for loop in folders
    pc,               \* position of the run in main.py
    mv,               \* position inside move_folder: "list", "copy", "delete"
    page,             \* main.py:27  keys of the current page still to move
    token,            \* paginator continuation: last key listed so far
    truncated,        \* paginator: the last page said more keys follow
    job,              \* main.py:75-87 what the try body computed for the job
    cause,            \* history: folder -> what raised in its processing
    outcome,          \* history: folder -> where its relocation ended
    badWeight,        \* history: the job's criteria file had a non-numeric weight
    badBen,           \* history: the job's criteria file had an unparseable boolean
    rpc,              \* position inside generate_report
    initial_df,       \* pdfGenerator.py:85 baseline ranking table
    perturbated_df,   \* pdfGenerator.py:85 perturbed ranking table
    elements,         \* pdfGenerator.py:165 the document's flowables
    traces,           \* pdfGenerator.py:63-67 what ax.plot drew
    tmpFiles,         \* temporary files that exist on disk
    radar_path        \* pdfGenerator.py:180

pipeVars == <<store, store0, folders, idx, pc, mv, page, token, truncated, job,
              cause, outcome, badWeight, badBen>>
repVars == <<rpc, initial_df, perturbated_df, elements, traces, tmpFiles, radar_path>>
vars == <<store, store0, folders, idx, pc, mv, page, token, truncated, job,
          cause, outcome, badWeight, badBen,
          rpc, initial_df, perturbated_df, elements, traces, tmpFiles, radar_path>>

---------------------------------------------------------------------------
(* Bounds of the model *)

\* file names tried under each pending folder
MaxNames == 2
\* keys S3 returns per page (1000 in S3; small here so that pagination happens)
PageSize == 1
\* rows of a criteria_configuration.csv
MaxCritRows == 2
\* lines of a company_info.txt
MaxInfoLines == 3
\* rows of a ranking table
MaxRows == 11

---------------------------------------------------------------------------
(* Strings as token sequences *)

Slash == "/"
Space == " "

Min(a, b) == IF a < b THEN a ELSE b

\* str.startswith
StartsWith(s, p) == Len(p) <= Len(s) /\ SubSeq(s, 1, Len(p)) = p

\* positions where old occurs in s
Occurrences(s, old) ==
    {i \in 1..(Len(s) - Len(old) + 1) : SubSeq(s, i, i + Len(old) - 1) = old}

\* a replace that rewrites every occurrence of old (str.replace without count)
RECURSIVE ReplaceAll(_, _, _)
ReplaceAll(s, old, new) ==
    IF Occurrences(s, old) = {} \/ old = <<>> THEN s
    ELSE LET i == CHOOSE j \in Occurrences(s, old) :
                      \A k \in Occurrences(s, old) : j <= k
         IN SubSeq(s, 1, i - 1) \o new
               \o ReplaceAll(SubSeq(s, i + Len(old), Len(s)), old, new)

\* str.replace(old, new, 1): the first occurrence only
Replace1(s, old, new) ==
    IF Occurrences(s, old) = {} THEN s
    ELSE LET i == CHOOSE j \in Occurrences(s, old) :
                      \A k \in Occurrences(s, old) : j <= k
         IN SubSeq(s, 1, i - 1) \o new \o SubSeq(s, i + Len(old), Len(s))

\* byte order of the tokens used in keys (no token is a prefix of another)
TokRank(t) ==
    CASE t = Space -> 0
      [] t = Slash -> 1
      [] t = "a" -> 2
      [] t = "b" -> 3
      [] t = "done" -> 4
      [] t = "ko" -> 5
      [] t = "x" -> 6
      [] t = "y" -> 7
      [] t = "z" -> 8
      [] OTHER -> 9

\* lexicographic order of keys, as S3 lists them
RECURSIVE KeyLess(_, _)
KeyLess(k1, k2) ==
    IF k1 = <<>> THEN k2 # <<>>
    ELSE IF k2 = <<>> THEN FALSE
    ELSE IF Head(k1) = Head(k2) THEN KeyLess(Tail(k1), Tail(k2))
    ELSE TokRank(Head(k1)) < TokRank(Head(k2))

RECURSIVE SortKeys(_)
SortKeys(S) ==
    IF S = {} THEN <<>>
    ELSE LET m == CHOOSE k \in S : \A j \in S : j = k \/ KeyLess(k, j)
         IN <<m>> \o SortKeys(S \ {m})

---------------------------------------------------------------------------
(* The object store *)

done_ == <<"done", Slash>>
ko_ == <<"ko", Slash>>

\* relative paths of a job's objects; the second one repeats a folder's name
Names == << <<"x">>, <<"a", Slash, "x">>, <<"y">>, <<"b", Slash, "z">>, <<"z">> >>

NameSet == {Names[i] : i \in 1..Min(MaxNames, Len(Names))}

\* objects an earlier run left under done/ and ko/
TerminalKeys == {done_ \o <<"a", Slash, "x">>, ko_ \o <<"b", Slash, "y">>}

\* objects at the root of the bucket, in no folder
RootKeys == {<<"y">>}

\* every object's content is named after the key it had when the run started
InitStores ==
    {[k \in {<<"a", Slash>> \o n : n \in A} \cup {<<"b", Slash>> \o n : n \in B}
           \cup T \cup RootKeys |-> k] :
        A \in SUBSET NameSet, B \in {{}, {Names[1]}}, T \in {{}, TerminalKeys}}

Under(st, prefix) == {k \in DOMAIN st : StartsWith(k, prefix)}

FirstSlash(k) == CHOOSE i \in 1..Len(k) : k[i] = Slash /\ \A j \in 1..(i-1) : k[j] # Slash

\* list_objects_v2(Delimiter="/"): the CommonPrefixes, in key order (one
\* response: the buckets tried hold far fewer than its 1000 entries)
CommonPrefixes(st) ==
    SortKeys({SubSeq(k, 1, FirstSlash(k)) : k \in {q \in DOMAIN st : \E i \in 1..Len(q) : q[i] = Slash}})

list_folders(st) == CommonPrefixes(st)

\* one list_objects_v2 page under prefix, after continuation token tok
PageAfter(st, prefix, tok) ==
    LET cand == {k \in Under(st, prefix) : tok = <<>> \/ KeyLess(tok, k)}
        sorted == SortKeys(cand)
        n == IF Len(sorted) < PageSize THEN Len(sorted) ELSE PageSize
    IN [keys |-> SubSeq(sorted, 1, n), more |-> Len(sorted) > n]

\* copy_object: the target key holds the source's content
CopyObject(st, src, dst) ==
    [k \in DOMAIN st \cup {dst} |-> IF k = dst THEN st[src] ELSE st[k]]

\* delete_object
DeleteObject(st, key) == [k \in DOMAIN st \ {key} |-> st[k]]

\* main.py:57  the terminal-prefix filter
IsTerminalDoneOnly(folder) == StartsWith(folder, done_)

IsTerminal(folder) == StartsWith(folder, done_) \/ StartsWith(folder, ko_)

---------------------------------------------------------------------------
(* The job loader: main.py:63-87 *)

\* a CSV cell is a token sequence; the empty one is a blank cell, which
\* read_csv returns as NaN
NaNCell == <<>>

\* str.strip
RECURSIVE LStrip(_)
LStrip(c) == IF c # <<>> /\ Head(c) = Space THEN LStrip(Tail(c)) ELSE c

RECURSIVE RStrip(_)
RStrip(c) == IF c # <<>> /\ c[Len(c)] = Space THEN RStrip(SubSeq(c, 1, Len(c) - 1)) ELSE c

Strip(c) == LStrip(RStrip(c))

\* astype(str): NaN becomes the string "nan"
AsStr(c) == IF c = NaNCell THEN <<"nan">> ELSE c

\* main.py:73  .astype(str).str.strip().map({"True": True, "False": False})
BenMap(c) ==
    IF Strip(AsStr(c)) = <<"True">> THEN "True"
    ELSE IF Strip(AsStr(c)) = <<"False">> THEN "False"
    ELSE "NaN"

\* the cells that parse as a number
IsNumber(c) == Strip(c) \in {<<"5">>, <<"3">>}

\* main.py:72  pd.to_numeric(errors="coerce"): a number, or NaN
ToNumeric(c) ==
    IF ~IsNumber(c) THEN [nan |-> TRUE, v |-> 0]
    ELSE IF Strip(c) = <<"5">> THEN [nan |-> FALSE, v |-> 5]
    ELSE [nan |-> FALSE, v |-> 3]

\* the words the CSV parser takes for booleans, in any mix of cases (the
\* spellings tried here), when nothing surrounds them
BoolWords == {<<"True">>, <<"TRUE">>, <<"true">>, <<"False">>, <<"FALSE">>, <<"false">>}

\* str() of the boolean the parser made of a word
BoolStr(c) == IF c \in {<<"True">>, <<"TRUE">>, <<"true">>} THEN <<"True">> ELSE <<"False">>

\* main.py:44, 64  pd.read_csv(header=None) types each column by its cells:
\* a third column of which every non-blank cell is a boolean word is read as
\* booleans, any other one keeps its strings
read_csv(rows) ==
    LET col == {rows[i][3] : i \in {r \in 1..Len(rows) : Len(rows[r]) >= 3}} \ {NaNCell}
    IN IF col # {} /\ col \subseteq BoolWords
       THEN [i \in 1..Len(rows) |->
                [rows[i] EXCEPT ![3] = IF @ = NaNCell THEN @ ELSE BoolStr(@)]]
       ELSE rows

\* main.py:65  dropna(how="all")
AllBlank(row) == \A i \in 1..Len(row) : row[i] = NaNCell
DropBlank(rows) == LET Keep(r) == ~AllBlank(r) IN SelectSeq(rows, Keep)

\* main.py:70  the repeated header row
DropHeader(rows) == LET Keep(r) == r[1] # <<"Criterion">> IN SelectSeq(rows, Keep)

\* main.py:65-73  the criteria frame: rows of [Criterion, Weight, Beneficial]
Frame(rows) ==
    LET kept == DropHeader(DropBlank(rows))
    IN [i \in 1..Len(kept) |->
           [Criterion |-> kept[i][1],
            Weight |-> ToNumeric(kept[i][2]),
            Beneficial |-> BenMap(kept[i][3])]]

Column(df, Pick(_)) == [i \in 1..Len(df) |-> Pick(df[i])]

\* main.py:75-76  df[mask]["Criterion"].tolist()
CriteriaWhere(df, flag) ==
    LET Keep(r) == r.Beneficial = flag
        Name(r) == r.Criterion
    IN Column(SelectSeq(df, Keep), Name)

\* main.py:77  dict(zip(...)): a later row of the same criterion wins
Weights(df) ==
    [c \in {df[i].Criterion : i \in 1..Len(df)} |->
        LET last == CHOOSE i \in 1..Len(df) :
                        df[i].Criterion = c /\ \A j \in (i+1)..Len(df) : df[j].Criterion # c
        IN df[last].Weight]

NoJob == [beneficial |-> <<>>, non_beneficial |-> <<>>, weights |-> <<>>,
          company_name |-> 0, contact_email |-> 0]

\* main.py:63-77: the criteria file becomes the two lists and the weights.
\* crit.ok = FALSE: get_object or read_csv raised.  raised names the statement
\* that raised, "" when none did: df[[0, 1, 2]] needs three columns, and
\* df[df["Beneficial"]] needs a mask of booleans without NaN.  When no row is
\* left the mask is an empty Series, which some pandas versions take for a
\* list of column labels (the lookup of "Criterion" then raises) and others
\* for an empty mask: emptyRaises says which
LoadCriteria(crit, emptyRaises) ==
    IF ~crit.ok THEN [raised |-> "read_csv", job |-> NoJob]
    ELSE IF \E i \in 1..Len(crit.rows) : Len(crit.rows[i]) < 3
    THEN [raised |-> "columns", job |-> NoJob]
    ELSE LET df == Frame(read_csv(crit.rows))
         IN IF (df = <<>> /\ emptyRaises) \/ \E i \in 1..Len(df) : df[i].Beneficial = "NaN"
            THEN [raised |-> "mask", job |-> NoJob]
            ELSE [raised |-> "",
                  job |-> [NoJob EXCEPT !.beneficial = CriteriaWhere(df, "True"),
                                        !.non_beneficial = CriteriaWhere(df, "False"),
                                        !.weights = Weights(df)]]

\* main.py:79-84: the non-blank lines; lines[1] and lines[2] must exist.
\* info.lines: 0 is a blank line, n > 0 the text of line n
LoadInfo(info, j) ==
    IF ~info.ok THEN [raised |-> "get_object", job |-> NoJob]
    ELSE LET IsText(l) == l # 0
             lines == SelectSeq(info.lines, IsText)
         IN IF Len(lines) < 3 THEN [raised |-> "index", job |-> NoJob]
            ELSE [raised |-> "",
                  job |-> [j EXCEPT !.company_name = lines[2], !.contact_email = lines[3]]]

\* what the criteria file held, for the rows that survive the header filter
HasBadWeight(crit) ==
    crit.ok /\ \E i \in 1..Len(crit.rows) :
        /\ Len(crit.rows[i]) >= 3 /\ ~AllBlank(crit.rows[i])
        /\ crit.rows[i][1] # <<"Criterion">>
        /\ ~IsNumber(crit.rows[i][2])

HasBadBen(crit) ==
    crit.ok /\ \E i \in 1..Len(crit.rows) :
        /\ Len(crit.rows[i]) >= 3 /\ ~AllBlank(crit.rows[i])
        /\ crit.rows[i][1] # <<"Criterion">>
        /\ Strip(crit.rows[i][3]) \notin {<<"True">>, <<"False">>}

\* the inputs tried: row i names criterion i, or is blank, or repeats the header
CritNames == <<<<"Cost">>, <<"Quality">>, <<"Delivery">>, <<"Risk">>>>

RowsAt(i) ==
    {<<CritNames[i], w, b>> : w \in {<<"5">>, <<"abc">>},
                              b \in {<<"True">>, <<"False", Space>>, <<"true">>, <<"yes">>}}
       \cup {<<NaNCell, NaNCell, NaNCell>>,
             <<<<"Criterion">>, <<"Weight">>, <<"Beneficial">>>>}

CritTables ==
    UNION {{t \in [1..m -> UNION {RowsAt(i) : i \in 1..m}] : \A i \in 1..m : t[i] \in RowsAt(i)} :
              m \in 1..Min(MaxCritRows, Len(CritNames))}

CritFiles == {[ok |-> FALSE, rows |-> <<>>]}
                \cup {[ok |-> TRUE, rows |-> t] : t \in CritTables}
                \cup {[ok |-> TRUE, rows |-> << <<<<"Cost">>, <<"5">>>> >>]}

InfoFiles == {[ok |-> FALSE, lines |-> <<>>]}
                \cup {[ok |-> TRUE, lines |-> [i \in 1..n |-> IF i \in B THEN 0 ELSE i]] :
                         n \in 0..MaxInfoLines, B \in SUBSET (1..MaxInfoLines)}

DataFiles == {[ok |-> FALSE], [ok |-> TRUE]}

---------------------------------------------------------------------------
(* The run: main.py:53-96 *)

Folder == folders[idx]

Moving == pc \in {"move_done", "move_ko"}

\* a handler that relocates to the success prefix
TargetPrefixDone == done_ \o Folder

\* main.py:92, 96  the target prefix of the relocation in progress
TargetPrefix == (IF pc = "move_done" THEN done_ ELSE ko_) \o Folder

\* main.py:30
target_key(source_key) == Replace1(source_key, Folder, TargetPrefix)

InitPipe ==
    /\ store \in InitStores
    /\ store0 = store
    /\ folders = <<>>
    /\ idx = 1
    /\ pc = "start"
    /\ mv = "idle"
    /\ page = <<>>
    /\ token = <<>>
    /\ truncated = FALSE
    /\ job = NoJob
    /\ cause = <<>>
    /\ outcome = <<>>
    /\ badWeight = FALSE
    /\ badBen = FALSE

\* main.py:54
Discover ==
    /\ pc = "start"
    /\ folders' = list_folders(store)
    /\ cause' = [f \in {folders'[i] : i \in 1..Len(folders')} |-> "none"]
    /\ outcome' = [f \in {folders'[i] : i \in 1..Len(folders')} |-> "none"]
    /\ pc' = "loop"
    /\ UNCHANGED <<store, store0, idx, mv, page, token, truncated, job, badWeight, badBen>>
    /\ UNCHANGED repVars

\* main.py:57-59  a terminal folder is skipped
Skip ==
    /\ pc = "loop" /\ idx <= Len(folders)
    /\ IsTerminal(Folder)
    /\ idx' = idx + 1
    /\ outcome' = [outcome EXCEPT ![Folder] = "skipped"]
    /\ UNCHANGED <<store, store0, folders, pc, mv, page, token, truncated, job, cause,
                   badWeight, badBen>>
    /\ UNCHANGED repVars

\* main.py:61-62  a pending folder enters the try block
Begin ==
    /\ pc = "loop" /\ idx <= Len(folders)
    /\ ~IsTerminal(Folder)
    /\ pc' = "try"
    /\ job' = NoJob
    /\ badWeight' = FALSE
    /\ badBen' = FALSE
    /\ UNCHANGED <<store, store0, folders, idx, mv, page, token, truncated, cause, outcome>>
    /\ UNCHANGED repVars

\* main.py:56  the for loop ends
Finish ==
    /\ pc = "loop" /\ idx > Len(folders)
    /\ pc' = "finished"
    /\ UNCHANGED <<store, store0, folders, idx, mv, page, token, truncated, job, cause,
                   outcome, badWeight, badBen>>
    /\ UNCHANGED repVars

\* a handler that lets the exception end the run
Uncaught(why) ==
    /\ cause' = [cause EXCEPT ![Folder] = why]
    /\ pc' = "aborted"
    /\ mv' = "idle"
    /\ page' = <<>>
    /\ token' = <<>>
    /\ truncated' = FALSE

\* main.py:94-96  an exception of the try body reaches the handler, which
\* starts move_folder(folder, "ko/" + folder)
Caught(why) ==
    /\ cause' = [cause EXCEPT ![Folder] = why]
    /\ pc' = "move_ko"
    /\ mv' = "list"
    /\ page' = <<>>
    /\ token' = <<>>
    /\ truncated' = FALSE

\* main.py:63-77  the criteria file is read and coerced
ReadCriteria ==
    /\ pc = "try"
    /\ \E crit \in CritFiles, emptyRaises \in BOOLEAN :
          LET r == LoadCriteria(crit, emptyRaises)
          IN /\ job' = r.job
             /\ badWeight' = HasBadWeight(crit)
             /\ badBen' = HasBadBen(crit)
             /\ IF r.raised = ""
                THEN /\ pc' = "info"
                     /\ UNCHANGED <<cause, mv, page, token, truncated>>
                ELSE Caught("load")
    /\ UNCHANGED <<store, store0, folders, idx, outcome>>
    /\ UNCHANGED repVars

\* main.py:79-84  the company file is read
ReadInfo ==
    /\ pc = "info"
    /\ \E info \in InfoFiles :
          LET r == LoadInfo(info, job)
          IN /\ job' = r.job
             /\ IF r.raised = ""
                THEN /\ pc' = "data"
                     /\ UNCHANGED <<cause, mv, page, token, truncated>>
                ELSE Caught("load")
    /\ UNCHANGED <<store, store0, folders, idx, outcome, badWeight, badBen>>
    /\ UNCHANGED repVars

\* main.py:86-87  the dataset is read
ReadData ==
    /\ pc = "data"
    /\ \E data \in DataFiles :
          IF data.ok
          THEN /\ pc' = "rank"
               /\ UNCHANGED <<job, cause, mv, page, token, truncated>>
          ELSE job' = NoJob /\ Caught("load")
    /\ UNCHANGED <<store, store0, folders, idx, outcome, badWeight, badBen>>
    /\ UNCHANGED repVars

\* main.py:89-92  rank returns and move_folder(folder, "done/" + folder)
\* starts; nothing reads the try body's locals any more
RankOk ==
    /\ pc = "rank"
    /\ pc' = "move_done"
    /\ mv' = "list"
    /\ page' = <<>>
    /\ token' = <<>>
    /\ truncated' = FALSE
    /\ job' = NoJob
    /\ UNCHANGED <<store, store0, folders, idx, cause, outcome, badWeight, badBen>>
    /\ UNCHANGED repVars

\* main.py:89-90  ranking or the report it writes raises
RankRaise ==
    /\ pc = "rank"
    /\ Caught("rank")
    /\ job' = NoJob
    /\ UNCHANGED <<store, store0, folders, idx, outcome, badWeight, badBen>>
    /\ UNCHANGED repVars

\* move_folder returns: the loop goes to the next folder
Return ==
    /\ outcome' = [outcome EXCEPT ![Folder] = IF pc = "move_done" THEN "done" ELSE "ko"]
    /\ idx' = idx + 1
    /\ pc' = "loop"
    /\ mv' = "idle"

\* main.py:27  the paginator asks for the next page
ListPage ==
    /\ Moving /\ mv = "list"
    /\ LET pg == PageAfter(store, Folder, token)
       IN IF pg.keys = <<>>
          THEN Return /\ UNCHANGED <<page, token, truncated>>
          ELSE /\ page' = pg.keys
               /\ token' = pg.keys[Len(pg.keys)]
               /\ truncated' = pg.more
               /\ mv' = "copy"
               /\ UNCHANGED <<outcome, idx, pc>>
    /\ UNCHANGED <<store, store0, folders, job, cause, badWeight, badBen>>
    /\ UNCHANGED repVars

\* main.py:29-36  copy_object to the target key
Copy ==
    /\ Moving /\ mv = "copy"
    /\ store' = CopyObject(store, Head(page), target_key(Head(page)))
    /\ mv' = "delete"
    /\ UNCHANGED <<store0, folders, idx, pc, page, token, truncated, job, cause, outcome,
                   badWeight, badBen>>
    /\ UNCHANGED repVars

\* main.py:38  delete_object, then the next object, page or the return
Delete ==
    /\ Moving /\ mv = "delete"
    /\ store' = DeleteObject(store, Head(page))
    /\ page' = Tail(page)
    /\ IF Tail(page) # <<>> THEN mv' = "copy" /\ UNCHANGED <<outcome, idx, pc>>
       ELSE IF truncated THEN mv' = "list" /\ UNCHANGED <<outcome, idx, pc>>
       ELSE Return
    /\ UNCHANGED <<store0, folders, token, truncated, job, cause, badWeight, badBen>>
    /\ UNCHANGED repVars

\* main.py:92-94  a storage call of the move to done/ raises: the handler
\* of the try block catches it
RelocErrorInTry ==
    /\ pc = "move_done" /\ mv \in {"list", "copy", "delete"}
    /\ Caught("reloc")
    /\ UNCHANGED <<store, store0, folders, idx, job, outcome, badWeight, badBen>>
    /\ UNCHANGED repVars

\* main.py:96  a storage call of the move to ko/ raises: nothing catches it
RelocErrorInExcept ==
    /\ pc = "move_ko" /\ mv \in {"list", "copy", "delete"}
    /\ Uncaught("reloc")
    /\ UNCHANGED <<store, store0, folders, idx, job, outcome, badWeight, badBen>>
    /\ UNCHANGED repVars

---------------------------------------------------------------------------
(* The report compiler: pdfGenerator.py *)

\* pdfGenerator.py:114, 118, 179  head(10), iloc[:10]
TopN == 10
\* pdfGenerator.py:125  head(5)
TopMetric == 5

\* a data frame: the column names and the rows, first column the identifier

head(df, n) == [df EXCEPT !.rows = SubSeq(df.rows, 1, Min(n, Len(df.rows)))]

\* df[[c1, c2, ...]]: the columns at the positions given, in that order
Select(df, pos) ==
    [columns |-> [i \in 1..Len(pos) |-> df.columns[pos[i]]],
     rows |-> [r \in 1..Len(df.rows) |-> [i \in 1..Len(pos) |-> df.rows[r][pos[i]]]]]

\* insert(0, "Rank", range(1, len + 1))
InsertRank(df) ==
    [columns |-> <<"Rank">> \o df.columns,
     rows |-> [r \in 1..Len(df.rows) |-> <<r>> \o df.rows[r]]]

\* sort_values(by = column c, ascending): the rows by growing value
RECURSIVE SortRows(_, _)
SortRows(rows, c) ==
    IF rows = <<>> THEN <<>>
    ELSE LET m == CHOOSE i \in 1..Len(rows) :
                      \A j \in 1..Len(rows) :
                          rows[i][c] < rows[j][c] \/ (rows[i][c] = rows[j][c] /\ i <= j)
         IN <<rows[m]>> \o SortRows(SubSeq(rows, 1, m - 1) \o SubSeq(rows, m + 1, Len(rows)), c)

sort_values(df, c) == [df EXCEPT !.rows = SortRows(df.rows, c)]

\* the flowables of the document
Flowable(kind) == [kind |-> kind, text |-> "", header |-> <<>>, body |-> <<>>,
                   cells |-> <<>>, path |-> ""]
Paragraph(t) == [Flowable("Paragraph") EXCEPT !.text = t]
Spacer == Flowable("Spacer")
PageBreak == Flowable("PageBreak")
Grid(cells) == [Flowable("Table") EXCEPT !.cells = cells]
Image(path) == [Flowable("Image") EXCEPT !.path = path]

\* pdfGenerator.py:17-35  the header row, then the frame's rows
prepare_table(df) == [Flowable("Table") EXCEPT !.header = df.columns, !.body = df.rows]

\* a top-10 table that ranks by the score column before cutting
ranking_table_sorted(df) ==
    prepare_table(InsertRank(head(sort_values(Select(df, <<1, Len(df.columns)>>), 2), TopN)))

\* pdfGenerator.py:114-120  identifier and last column, first 10 rows, numbered
ranking_table(df) ==
    prepare_table(InsertRank(head(Select(df, <<1, Len(df.columns)>>), TopN)))

\* pdfGenerator.py:38-43  one two-column frame per metric column
split_df(df) ==
    [i \in 1..(Len(df.columns) - 2) |->
        [col |-> df.columns[i + 1], frame |-> Select(df, <<1, i + 1>>)]]

\* pdfGenerator.py:124-128  heading and lowest-5 table of each metric
metric_tables(df) ==
    LET dfs == split_df(df)
    IN [k \in 1..(2 * Len(dfs)) |->
           IF k % 2 = 1 THEN Paragraph(dfs[(k + 1) \div 2].col)
           ELSE prepare_table(InsertRank(head(sort_values(dfs[k \div 2].frame, 2), TopMetric)))]

\* pdfGenerator.py:131-144  two metrics per grid row; mt is indexed from 0 in
\* the code, from 1 here
metric_grid_data(mt) ==
    [r \in 1..((Len(mt) + 3) \div 4) |->
        [j \in 1..2 |->
            LET at == (r - 1) * 4 + (j - 1) * 2
            IN IF at < Len(mt) THEN Grid(<<mt[at + 1], mt[at + 2]>>) ELSE Paragraph("")]]

\* pdfGenerator.py:106-174  pages 1 and 2
Pages12(idf, pdf) ==
    LET tbl_initial == ranking_table(idf)
        tbl_final == ranking_table(pdf)
        top_grid == Grid(<<Grid(<<Paragraph("Overall Ranking"), tbl_initial>>),
                           Grid(<<Paragraph("After Perturbation"), tbl_final>>)>>)
    IN <<Paragraph("Supplier Selection Analysis Report"), Paragraph("intro"), Spacer,
         top_grid, Spacer, Paragraph("Metric-Based Rankings"),
         Grid(metric_grid_data(metric_tables(idf))), PageBreak,
         Paragraph("Perturbation Scenario"), Paragraph("str(perturbation)"), Spacer,
         Paragraph("Ranking After Perturbation"), tbl_final, PageBreak>>

\* pdfGenerator.py:179
top10_suppliers(pdf) == [i \in 1..Min(TopN, Len(pdf.rows)) |-> pdf.rows[i][1]]

\* a chart that plots the rows of the frame the identifiers came from
radar_traces_of_perturbed(idf, pdf, top10) ==
    LET Keep(row) == \E i \in 1..Len(top10) : top10[i] = row[1]
        radar_data == SelectSeq(pdf.rows, Keep)
        m == Len(pdf.columns) - 2
    IN [r \in 1..Len(radar_data) |->
           [label |-> radar_data[r][1],
            values |-> [i \in 1..m |-> radar_data[r][i + 1]] \o <<radar_data[r][2]>>]]

\* pdfGenerator.py:49-67  one closed polygon per row of initial_df whose
\* identifier is in top10, over the columns between the first and the last
radar_traces(idf, pdf, top10) ==
    LET Keep(row) == \E i \in 1..Len(top10) : top10[i] = row[1]
        radar_data == SelectSeq(idf.rows, Keep)
        m == Len(idf.columns) - 2
    IN [r \in 1..Len(radar_data) |->
           [label |-> radar_data[r][1],
            values |-> IF m = 0 THEN <<>>
                       ELSE [i \in 1..m |-> radar_data[r][i + 1]] \o <<radar_data[r][2]>>]]

\* the ranking tables tried: n suppliers 1..n in baseline order, and the same
\* suppliers rotated by r, reversed or not, with other scores and the
\* perturbed run's own criterion values
Columns == <<"Supplier", "Cost", "Quality", "Score">>

BaselineRow(i) == <<i, (i * 7) % 17, (i * 5) % 17, 100 - i>>

Baseline(n) == [columns |-> Columns, rows |-> [i \in 1..n |-> BaselineRow(i)]]

Perturbed(n, r, rev) ==
    [columns |-> Columns,
     rows |-> [i \in 1..n |->
                  LET k == ((i - 1 + r) % n) + 1
                      id == IF rev THEN n + 1 - k ELSE k
                  IN <<id, 50 + BaselineRow(id)[2], 50 + BaselineRow(id)[3], 200 - i>>]]

TmpPath == "tmp.png"

InitReport ==
    /\ rpc = "called"
    /\ \E n \in 0..MaxRows : \E r \in 0..n, rev \in BOOLEAN :
          /\ initial_df = Baseline(n)
          /\ perturbated_df = Perturbed(n, r, rev)
    /\ elements = <<>>
    /\ traces = <<>>
    /\ tmpFiles \in {{}, {"other.png"}}
    /\ radar_path = ""

\* pdfGenerator.py:87-174
BuildPages ==
    /\ rpc = "called"
    /\ elements' = Pages12(initial_df, perturbated_df)
    /\ rpc' = "page3"
    /\ UNCHANGED <<initial_df, perturbated_df, traces, tmpFiles, radar_path>>
    /\ UNCHANGED pipeVars

\* pdfGenerator.py:179-183  the chart is drawn and saved to a temporary file
RadarChart ==
    /\ rpc = "page3"
    /\ traces' = radar_traces(initial_df, perturbated_df, top10_suppliers(perturbated_df))
    /\ radar_path' = TmpPath
    /\ tmpFiles' = tmpFiles \cup {TmpPath}
    /\ elements' = elements \o <<Paragraph("Radar Chart of Top 10 Suppliers After Perturbation"),
                                 Spacer, Image(TmpPath)>>
    /\ rpc' = "build"
    /\ UNCHANGED <<initial_df, perturbated_df>>
    /\ UNCHANGED pipeVars

\* pdfGenerator.py:194  doc.build returns
BuildOk ==
    /\ rpc = "build"
    /\ rpc' = "cleanup"
    /\ UNCHANGED <<initial_df, perturbated_df, elements, traces, tmpFiles, radar_path>>
    /\ UNCHANGED pipeVars

\* pdfGenerator.py:194  doc.build raises: the error leaves generate_report
BuildRaise ==
    /\ rpc = "build"
    /\ rpc' = "raised"
    /\ UNCHANGED <<initial_df, perturbated_df, elements, traces, tmpFiles, radar_path>>
    /\ UNCHANGED pipeVars

\* pdfGenerator.py:197  os.remove(radar_path)
Cleanup ==
    /\ rpc = "cleanup"
    /\ tmpFiles' = tmpFiles \ {radar_path}
    /\ rpc' = "returned"
    /\ UNCHANGED <<initial_df, perturbated_df, elements, traces, radar_path>>
    /\ UNCHANGED pipeVars

NextReport == BuildPages \/ RadarChart \/ BuildOk \/ BuildRaise \/ Cleanup

---------------------------------------------------------------------------
(* Specifications *)

\* the report compiler at rest, while the run is modelled
IdleReport ==
    /\ rpc = "idle"
    /\ initial_df = Baseline(0)
    /\ perturbated_df = Baseline(0)
    /\ elements = <<>>
    /\ traces = <<>>
    /\ tmpFiles = {}
    /\ radar_path = ""

\* the run at rest, while the report compiler is modelled
IdlePipe ==
    /\ store = <<>>
    /\ store0 = <<>>
    /\ folders = <<>>
    /\ idx = 1
    /\ pc = "idle"
    /\ mv = "idle"
    /\ page = <<>>
    /\ token = <<>>
    /\ truncated = FALSE
    /\ job = NoJob
    /\ cause = <<>>
    /\ outcome = <<>>
    /\ badWeight = FALSE
    /\ badBen = FALSE

Init == InitPipe /\ IdleReport

\* the run of main.py, storage failures included
Next ==
    \/ Discover \/ Skip \/ Begin \/ Finish \/ ReadCriteria \/ ReadInfo \/ ReadData
    \/ RankOk \/ RankRaise \/ ListPage \/ Copy \/ Delete
    \/ RelocErrorInTry \/ RelocErrorInExcept

Spec == Init /\ [][Next]_vars

\* the run when no storage call fails
NextOk ==
    \/ Discover \/ Skip \/ Begin \/ Finish \/ ReadCriteria \/ ReadInfo \/ ReadData
    \/ RankOk \/ RankRaise \/ ListPage \/ Copy \/ Delete

\* the interpreter keeps running the loop: every call returns or raises
FairSpec == Init /\ [][NextOk]_vars /\ WF_vars(NextOk)

InitR == InitReport /\ IdlePipe

\* one call of generate_report
ReportSpec == InitR /\ [][NextReport]_vars

---------------------------------------------------------------------------
(* Properties *)

FolderSet == {folders[i] : i \in 1..Len(folders)}

\* a key under done/ or ko/
TerminalKey(k) == Len(k) >= 2 /\ k[1] \in {"done", "ko"} /\ k[2] = Slash

\* the objects the job under prefix f had when the run started
JobObjects(f) == {k \in DOMAIN store0 : StartsWith(k, f)}

\* every object of job f is now at its relative path under dest \o f
AllUnder(dest, f) ==
    \A k \in JobObjects(f) : (dest \o k) \in DOMAIN store /\ store[dest \o k] = k

\* C1: when every storage call succeeds, move_folder(bucket, p, "done/" + p)
\* of a non-empty folder p leaves no object under p, puts every original
\* object at the same relative path under done/p, and adds no other key
\* under done/p (what an earlier run left there stays, unless replaced by the
\* object of the same relative path).
C1_MoveToDone ==
    \A f \in DOMAIN outcome :
        (outcome[f] = "done" /\ cause[f] = "none" /\ JobObjects(f) # {}) =>
            /\ Under(store, f) = {}
            /\ AllUnder(done_, f)
            /\ Under(store, done_ \o f)
                  = {done_ \o k : k \in JobObjects(f)} \cup Under(store0, done_ \o f)
            /\ \A k \in Under(store0, done_ \o f) :
                  k \notin {done_ \o q : q \in JobObjects(f)} => store[k] = store0[k]

\* a folder of two objects, one of them repeating the folder's name in its
\* path, was moved to done/, where an earlier run had left an object
C1_Witness ==
    \E f \in DOMAIN outcome :
        /\ outcome[f] = "done" /\ cause[f] = "none"
        /\ Cardinality(JobObjects(f)) >= 2
        /\ (f \o f \o <<"x">>) \in JobObjects(f)
        /\ Under(store0, done_ \o f) # {}

\* C2: a job whose loading or ranking (with its reporting) raised, and whose
\* relocation met no storage failure, ends with all its objects under ko/,
\* none under its own prefix and none under done/.
C2_ErrorGoesToKo ==
    \A f \in DOMAIN outcome :
        (outcome[f] = "ko" /\ cause[f] \in {"load", "rank"}) =>
            /\ Under(store, f) = {}
            /\ AllUnder(ko_, f)
            /\ \A k \in Under(store, done_ \o f) : store[k] \notin JobObjects(f)

\* a folder of two objects went to ko/ after ranking raised, and another
\* after loading raised
C2_Witness ==
    /\ \E f \in DOMAIN outcome :
          outcome[f] = "ko" /\ cause[f] = "rank" /\ Cardinality(JobObjects(f)) >= 2
    /\ \E f \in DOMAIN outcome :
          outcome[f] = "ko" /\ cause[f] = "load" /\ JobObjects(f) # {}

\* C3 (as claimed): a job whose criteria file holds a non-numeric weight
\* cell fails in loading: ranking is never invoked for it and it is never
\* moved to done/.
C3_AsClaimed == badWeight => pc \notin {"rank", "move_done"}

\* C4 (as claimed): a storage failure inside move_folder is never caught by
\* the per-job handler: once one happened the run has ended, and no second
\* relocation of the job is under way.
C4_AsClaimed == \A f \in DOMAIN cause : cause[f] = "reloc" => pc = "aborted"

\* what one step changes in the bucket
Changed(k) ==
    \/ (k \in DOMAIN store) # (k \in DOMAIN store')
    \/ k \in DOMAIN store /\ k \in DOMAIN store' /\ store[k] # store'[k]

\* C5: when storage calls succeed, errors of loading, ranking or reporting
\* never end the run: the run reaches the end of the loop, every pending
\* top-level folder listed has then been relocated to done/ or ko/, the
\* folders are settled in the listed order, and a step of job p changes no
\* object under another listed pending folder q.
C5_NoErrorAbortsRun ==
    /\ <>(pc = "finished")
    /\ [](pc = "finished" =>
             \A f \in FolderSet :
                 ~(f[1] \in {"done", "ko"}) => outcome[f] \in {"done", "ko"})
    /\ [](pc # "aborted")
    /\ [](\A i \in 1..Len(folders) :
             /\ i < idx => outcome[folders[i]] # "none"
             /\ i > idx => outcome[folders[i]] = "none")
    /\ [][\A k \in DOMAIN store \cup DOMAIN store' :
             Changed(k) =>
                 /\ idx <= Len(folders)
                 /\ \A q \in FolderSet :
                       (q # folders[idx] /\ ~TerminalKey(q)) => ~StartsWith(k, q)]_vars

\* the run ended with a job sent to ko/ by an error, and a later job sent
\* to done/
C5_Witness ==
    /\ pc = "finished"
    /\ \E i, j \in 1..Len(folders) :
          /\ i < j
          /\ outcome[folders[i]] = "ko" /\ cause[folders[i]] \in {"load", "rank"}
          /\ outcome[folders[j]] = "done"
          /\ JobObjects(folders[i]) # {} /\ JobObjects(folders[j]) # {}

\* C6 (as claimed): when generate_report returns or lets an error out, the
\* temporary chart image it created no longer exists.
C6_AsClaimed == rpc \in {"returned", "raised"} => radar_path \notin tmpFiles

\* C7: a folder beginning with done/ or ko/ never enters the try block (no
\* read, no ranking, no relocation for it), and no step removes an object
\* that is under done/ or ko/.
C7_TerminalAbsorbing ==
    /\ [](pc \in {"try", "info", "data", "rank", "move_done", "move_ko"} =>
             ~TerminalKey(folders[idx]))
    /\ [][\A k \in DOMAIN store : TerminalKey(k) => k \in DOMAIN store']_vars

\* the run skipped done/ and ko/, both holding objects, and relocated a
\* pending folder
C7_Witness ==
    /\ pc = "finished"
    /\ \E f, g \in DOMAIN outcome :
          /\ f[1] = "done" /\ g[1] = "ko" /\ outcome[f] = "skipped" /\ outcome[g] = "skipped"
    /\ \E f \in DOMAIN outcome : outcome[f] \in {"done", "ko"} /\ JobObjects(f) # {}

\* the folder of the job that entered the try block last, once the loop has
\* left it
LastJob ==
    folders[CHOOSE i \in 1..Len(folders) :
                /\ i < idx /\ ~TerminalKey(folders[i])
                /\ \A j \in (i + 1)..(idx - 1) : TerminalKey(folders[j])]

\* C8 (as claimed): a job whose criteria file holds a beneficial cell that,
\* trimmed, is neither "True" nor "False" is rejected: the criterion reaches
\* neither list, the job goes no further than the criteria step (no ranking,
\* no move to done/), and when its relocation returns its objects are under
\* ko/.
C8_AsClaimed ==
    badBen =>
        /\ pc \notin {"info", "data", "rank", "move_done"}
        /\ job.beneficial = <<>> /\ job.non_beneficial = <<>>
        /\ pc \in {"loop", "finished"} =>
              /\ outcome[LastJob] = "ko"
              /\ Under(store, LastJob) = {}
              /\ AllUnder(ko_, LastJob)

\* the first 10 identifiers of the perturbed ranking
PerturbedTop ==
    {perturbated_df.rows[i][1] :
        i \in 1..(IF Len(perturbated_df.rows) < 10 THEN Len(perturbated_df.rows) ELSE 10)}

\* C9: the radar chart draws one trace for each of the first 10 identifiers
\* of the perturbed ranking and no other, and each trace plots the
\* entity's criterion values of the baseline table (the columns between the
\* identifier and the last one), closed by its first value.
C9_RadarEntities ==
    rpc \in {"build", "cleanup", "returned", "raised"} =>
        /\ {traces[t].label : t \in 1..Len(traces)} = PerturbedTop
        /\ Len(traces) = Cardinality(PerturbedTop)
        /\ \A t \in 1..Len(traces) :
              \E r \in 1..Len(initial_df.rows) :
                  /\ initial_df.rows[r][1] = traces[t].label
                  /\ traces[t].values
                        = SubSeq(initial_df.rows[r], 2, Len(initial_df.columns) - 1)
                             \o <<initial_df.rows[r][2]>>

\* a chart for rankings of more than 10 suppliers whose perturbed top 10 is
\* not the baseline's
C9_Witness ==
    /\ rpc = "build"
    /\ Len(perturbated_df.rows) > 10
    /\ PerturbedTop # {initial_df.rows[i][1] : i \in 1..10}

\* the top-10 tables of the document
OverallTable == elements[4].cells[1].cells[2]
AfterTable == elements[4].cells[2].cells[2]
Section2Table == elements[13]

\* row N of a top-10 table of the ranking table df: N, the identifier and
\* the last column of df's N-th row
RowsMatch(tbl, df) ==
    /\ Len(tbl.body) = (IF Len(df.rows) < 10 THEN Len(df.rows) ELSE 10)
    /\ \A N \in 1..Len(tbl.body) :
          tbl.body[N] = <<N, df.rows[N][1], df.rows[N][Len(df.columns)]>>

\* C10: the Section 1 tables (baseline, perturbed) and the Section 2 table
\* (perturbed) have min(10, rows) rows numbered 1..N, row N naming the N-th
\* entity of the supplied table; the Section 2 table equals the Section 1
\* "After Perturbation" table.
C10_TablesKeepOrder ==
    rpc \notin {"idle", "called"} =>
        /\ RowsMatch(OverallTable, initial_df)
        /\ RowsMatch(AfterTable, perturbated_df)
        /\ RowsMatch(Section2Table, perturbated_df)
        /\ Section2Table.kind = "Table" /\ Section2Table = AfterTable

\* a report on rankings of more than 10 suppliers, the perturbed one not in
\* the order of its scores' growth
C10_Witness ==
    /\ rpc = "returned"
    /\ Len(initial_df.rows) > 10 /\ Len(perturbated_df.rows) > 10
    /\ perturbated_df.rows[1][1] # initial_df.rows[1][1]

====
